---- MODULE Spec2Model ----
(***************************************************************************)
(* State-machine model of server.js: the socket.io session handlers, the   *)
(* in-memory message log with its write-through file, the users object     *)
(* and the two HTTP routes that touch the log.                             *)
(*                                                                         *)
(* Representation of JavaScript values:                                    *)
(*   - a display name is a TLA+ string ("" is the empty string);           *)
(*   - a message text is a sequence of string fragments (one-character     *)
(*     fragments for chat payloads, so that trim() can be computed);       *)
(*   - uuidv4() is a fresh token: the value of the counter nextId;         *)
(*   - timestamps are left out: no handler reads one.                      *)
(* Every handler runs to completion on the single event loop, so one       *)
(* action is one handler invocation.                                       *)
(***************************************************************************)
EXTENDS Integers, Sequences, FiniteSets, TLC

(* ------------------------------ bounds --------------------------------- *)

\* number of socket ids the transport ever hands out
MaxConns == 2
\* number of uuids issued in a behaviour of specification Spec
MaxIds == 3
\* number of uuids issued in a behaviour of SpecLifetime and of SpecStore
MaxStoreIds == 4
\* number of uuids issued in a behaviour of specification SpecLong
MaxLongIds == 62

(* --------------------------- program constants ------------------------- *)

\* messages.slice(-50) in the user-join handler
HistoryLimit == 50
\* parseInt(req.query.limit) || 50 in GET /api/messages
DefaultLimit == 50

(* ------------------------------ inputs --------------------------------- *)

Conns == 1..MaxConns

\* display names a client may declare in user-join
Names == {"", "a"}

\* the value of a property that was never set (req.body.username, users[id])
Undefined == "<undefined>"

\* characters that String.prototype.trim removes
WhiteSpace == {" ", "\t", "\n"}

\* chat payloads: strings (as character sequences) and one non-string value
Texts == {<< >>, <<" ">>, <<" ", "h">>}
ChatPayloads ==
    {[isString |-> TRUE, text |-> t] : t \in Texts}
        \cup {[isString |-> FALSE, text |-> << >>]}

\* values of req.query.limit: absent, numerals, signed, padded, garbage
QueryLimits ==
    {<< >>, <<"0">>, <<"1">>, <<"2">>, <<"6", "0">>, <<"-", "1">>,
     <<" ", "2">>, <<"3", "x">>, <<"a">>}

\* the file multer hands to the upload route, or none
NoFile == [present |-> FALSE, originalname |-> "", ext |-> "", size |-> 0,
           mimetype |-> ""]
AFile == [present |-> TRUE, originalname |-> "f.txt", ext |-> ".txt",
          size |-> 1, mimetype |-> "text/plain"]
Files == {NoFile, AFile}

\* req.body.username of an upload
BodyUsernames == {"a", Undefined}

(* ------------------------------- state --------------------------------- *)

VARIABLES
    status,     \* socket id -> "new" | "open" | "closed"
    users,      \* the users object: <<[id, name]>> in key insertion order
    messages,   \* the messages array
    disk,       \* data/messages.json: [corrupt, log]
    nextId,     \* number of uuids issued so far
    running,    \* FALSE once an uncaught exception has ended the process
    outbox,     \* socket deliveries made by the last handler, in order
    response,   \* HTTP response of the last handler
    last,       \* the last handler that ran, with its input
    joinPre,    \* users as it was before the join that ran last, if any
    joined,     \* sockets whose user-join handler has run in this process
    unsaved,    \* ids appended by this process whose own write failed
    lastGood,   \* the log as the last successful write left it in the file
    lastSeen,   \* open socket -> id of the last persisted event sent to it
    view        \* open socket -> the last users-list sent to it

vars == <<status, users, messages, disk, nextId, running, outbox, response,
          last, joinPre, joined, unsaved, lastGood, lastSeen, view>>

\* what the handlers without an append leave alone
store == <<messages, disk, nextId, unsaved, lastGood>>

(* --------------------------- pure functions ---------------------------- *)

Min(a, b) == IF a < b THEN a ELSE b
Max(a, b) == IF a > b THEN a ELSE b

\* slice(0, 50) in place of slice(-50): the first elements, not the last
SliceFromStart(arr, start) ==
    SubSeq(arr, 1, Min(IF start < 0 THEN 0 - start ELSE start, Len(arr)))

\* a start index one too far: slice(-50) yields 49 elements
SliceOneShort(arr, start) ==
    LET len == Len(arr)
        k == IF start < 0 THEN Max(len + start, 0) ELSE Min(start, len)
    IN  SubSeq(arr, k + 2, len)

\* Array.prototype.slice(start) with one argument
Slice(arr, start) ==
    LET len == Len(arr)
        k == IF start < 0 THEN Max(len + start, 0) ELSE Min(start, len)
    IN  SubSeq(arr, k + 1, len)

\* String.prototype.trim on a character sequence
RECURSIVE TrimLeft(_)
TrimLeft(t) ==
    IF t # << >> /\ Head(t) \in WhiteSpace THEN TrimLeft(Tail(t)) ELSE t

RECURSIVE TrimRight(_)
TrimRight(t) ==
    IF t # << >> /\ t[Len(t)] \in WhiteSpace
    THEN TrimRight(SubSeq(t, 1, Len(t) - 1))
    ELSE t

\* the blank test without trim(): !message
TrimNothing(t) == t

Trim(t) == TrimRight(TrimLeft(t))

\* JavaScript truthiness of a string-or-undefined value
Truthy(v) == v # Undefined /\ v # ""

DigitChars == {"0", "1", "2", "3", "4", "5", "6", "7", "8", "9"}

DigitVal(ch) ==
    CASE ch = "0" -> 0 [] ch = "1" -> 1 [] ch = "2" -> 2 [] ch = "3" -> 3
      [] ch = "4" -> 4 [] ch = "5" -> 5 [] ch = "6" -> 6 [] ch = "7" -> 7
      [] ch = "8" -> 8 [] ch = "9" -> 9

\* value of the longest prefix of digits of t, continuing from acc;
\* seen tells whether a digit was read
RECURSIVE ParseDigits(_, _, _)
ParseDigits(t, acc, seen) ==
    IF t # << >> /\ Head(t) \in DigitChars
    THEN ParseDigits(Tail(t), 10 * acc + DigitVal(Head(t)), TRUE)
    ELSE [nan |-> ~seen, val |-> acc]

\* parseInt(q): leading white space, an optional sign, then digits;
\* NaN when no digit follows (also for the absent parameter)
ParseInt(q) ==
    LET t == TrimLeft(q)
        neg == t # << >> /\ Head(t) = "-"
        signed == t # << >> /\ Head(t) \in {"-", "+"}
        r == ParseDigits(IF signed THEN Tail(t) ELSE t, 0, FALSE)
    IN  [nan |-> r.nan, val |-> IF neg THEN 0 - r.val ELSE r.val]

\* parseInt(req.query.limit) || 50
Limit(q) ==
    LET r == ParseInt(q)
    IN  IF r.nan \/ r.val = 0 THEN DefaultLimit ELSE r.val

\* socket.request.connection.remoteAddress of a socket
RemoteAddress(c) ==
    IF c % 2 = 1 THEN <<"::ffff:", "10.0.0.1">> ELSE <<"::1">>

\* clientIp: the address without a leading "::ffff:"
ClientIp(c) ==
    LET a == RemoteAddress(c)
    IN  IF Head(a) = "::ffff:" THEN Tail(a) ELSE a

(* --------------------------- the users object -------------------------- *)

HasKey(u, c) == \E i \in DOMAIN u : u[i].id = c

\* users[c]
Get(u, c) ==
    IF HasKey(u, c)
    THEN u[CHOOSE i \in DOMAIN u : u[i].id = c].name
    ELSE Undefined

\* users[c] = n : an existing key keeps its place, a new key goes last
Put(u, c, n) ==
    IF HasKey(u, c)
    THEN [i \in DOMAIN u |-> IF u[i].id = c THEN [id |-> c, name |-> n]
                                             ELSE u[i]]
    ELSE Append(u, [id |-> c, name |-> n])

\* delete users[c]
Delete(u, c) == SelectSeq(u, LAMBDA e : e.id # c)

\* Object.values(users)
Values(u) == [i \in DOMAIN u |-> u[i].name]

(* ------------------------------ the file ------------------------------- *)

\* JSON.stringify leaves out a property whose value is undefined
StringifyEvent(e) ==
    IF "username" \in DOMAIN e /\ e.username = Undefined
    THEN [f \in DOMAIN e \ {"username"} |-> e[f]]
    ELSE e

Stringify(msgs) == [i \in DOMAIN msgs |-> StringifyEvent(msgs[i])]

\* outcomes of fs.writeFileSync: written, failed leaving the file as it
\* was, failed after truncating it
WriteOutcomes == {"ok", "failed", "torn"}

\* a write that is repeated until it goes through
saveMessagesRetry(msgs, d, w) == [corrupt |-> FALSE, log |-> Stringify(msgs)]

\* a write that adds the newest event to the file instead of rewriting it
saveMessagesAppend(msgs, d, w) ==
    CASE w = "ok" ->
            [corrupt |-> FALSE,
             log |-> (IF d.corrupt THEN << >> ELSE d.log)
                         \o <<StringifyEvent(msgs[Len(msgs)])>>]
      [] w = "failed" -> d
      [] w = "torn" -> [corrupt |-> TRUE, log |-> << >>]

\* a write that is put off: the file is not touched by the handler
saveMessagesDeferred(msgs, d, w) == d

\* saveMessages(): the exception of a failed write is caught and logged
saveMessages(msgs, d, w) ==
    CASE w = "ok" -> [corrupt |-> FALSE, log |-> Stringify(msgs)]
      [] w = "failed" -> d
      [] w = "torn" -> [corrupt |-> TRUE, log |-> << >>]

\* initialisation of messages: [] when the file does not parse
LoadMessages(d) == IF d.corrupt THEN << >> ELSE d.log

(* ----------------------------- the transport --------------------------- *)

\* sockets connected to the namespace
Open(st) == {c \in Conns : st[c] = "open"}

RECURSIVE Ascending(_)
Ascending(S) ==
    IF S = {} THEN << >>
    ELSE LET m == CHOOSE x \in S : \A y \in S : x <= y
         IN  <<m>> \o Ascending(S \ {m})

\* one delivery of payload p to each socket of S
Deliver(S, p) ==
    LET order == Ascending(S)
    IN  [i \in DOMAIN order |-> [to |-> order[i]] @@ p]

\* an emit that reaches the open socket of the lowest id only
IoEmitOne(st, p) ==
    Deliver({c \in Open(st) : \A d \in Open(st) : c <= d}, p)

\* io.emit(...)
IoEmit(st, p) == Deliver(Open(st), p)

\* io.emit where socket.broadcast.emit was meant: the origin is not left out
BroadcastEmitAll(st, c, p) == Deliver(Open(st), p)

\* socket.broadcast.emit(...)
BroadcastEmit(st, c, p) == Deliver(Open(st) \ {c}, p)

\* io.emit where socket.emit was meant: every open socket gets it
SocketEmitAll(c, p) == Deliver(Open(status), p)

\* socket.emit(...)
SocketEmit(c, p) == Deliver({c}, p)

\* events that carry an element of messages
PersistedEvents == {"chat-message", "new-file", "system-message"}

NoView == [got |-> FALSE, names |-> << >>]

\* the persisted event that the deliveries out bring to socket c, if any
SeenBy(c, out, before) ==
    IF \E i \in DOMAIN out :
          out[i].to = c /\ out[i].ev \in PersistedEvents
    THEN out[CHOOSE i \in DOMAIN out :
                out[i].to = c /\ out[i].ev \in PersistedEvents].event.id
    ELSE before

\* the users-list that the deliveries out bring to socket c, if any
ViewedBy(c, out, before) ==
    IF \E i \in DOMAIN out : out[i].to = c /\ out[i].ev = "users-list"
    THEN [got |-> TRUE,
          names |-> out[CHOOSE i \in DOMAIN out :
                           out[i].to = c /\ out[i].ev = "users-list"].names]
    ELSE before

\* what the clients hold once a handler has sent out; a closed socket
\* holds nothing
Clients(st, out) ==
    /\ lastSeen' = [c \in Conns |-> IF st[c] = "open"
                                    THEN SeenBy(c, out, lastSeen[c]) ELSE 0]
    /\ view' = [c \in Conns |-> IF st[c] = "open"
                                THEN ViewedBy(c, out, view[c]) ELSE NoView]

\* messages.unshift(e): the new event goes to the front
PushFront(msgs, e) == <<e>> \o msgs

\* the new event goes in before the newest one
PushBeforeLast(msgs, e) ==
    IF msgs = << >> THEN <<e>>
    ELSE SubSeq(msgs, 1, Len(msgs) - 1) \o <<e, msgs[Len(msgs)]>>

\* messages.push(e)
Push(msgs, e) == Append(msgs, e)

\* bookkeeping of a write that ended as w for the event with id n
Written(msgs, n, w) ==
    /\ unsaved' = IF w = "ok" THEN unsaved ELSE unsaved \cup {n}
    /\ lastGood' = IF w = "ok" THEN Stringify(msgs) ELSE lastGood

NoResponse == [code |-> 0, body |-> << >>]

NoPayload == [isString |-> TRUE, text |-> << >>]

\* record of the handler that ran
Ran(op, c) ==
    [op |-> op, conn |-> c, name |-> "", payload |-> NoPayload,
     limit |-> << >>, threw |-> FALSE, file |-> FALSE, write |-> "none"]

NoJoin == [valid |-> FALSE, conn |-> 0, users |-> << >>]

(* ------------------------------- Init ---------------------------------- *)

\* a first start: no messages.json, nobody connected
Init ==
    /\ status = [c \in Conns |-> "new"]
    /\ users = << >>
    /\ messages = << >>
    /\ disk = [corrupt |-> FALSE, log |-> << >>]
    /\ nextId = 0
    /\ running = TRUE
    /\ outbox = << >>
    /\ response = NoResponse
    /\ last = Ran("start", 0)
    /\ joinPre = NoJoin
    /\ joined = {}
    /\ unsaved = {}
    /\ lastGood = << >>
    /\ lastSeen = [c \in Conns |-> 0]
    /\ view = [c \in Conns |-> NoView]

(* ------------------------------ handlers ------------------------------- *)

\* io.on('connection'): the transport opens socket c; ids are fresh, so
\* the k-th socket to connect is called k
Connect(c) ==
    /\ running
    /\ status[c] = "new"
    /\ \A d \in Conns : d < c => status[d] # "new"
    /\ status' = [status EXCEPT ![c] = "open"]
    /\ outbox' = << >>
    /\ response' = NoResponse
    /\ last' = Ran("connect", c)
    /\ joinPre' = NoJoin
    /\ UNCHANGED <<users, store, running, joined, lastSeen, view>>

\* socket.on('user-join', username), the write ending as w
Join(c, username, w) ==
    LET users1 == Put(users, c, username)
        joinMessage ==
            [id |-> nextId + 1, type |-> "system",
             message |-> <<username, " joined the chat (">> \o ClientIp(c)
                             \o <<")">>]
        messages1 == Push(messages, joinMessage)
    IN  /\ running
        /\ status[c] = "open"
        /\ users' = users1
        /\ nextId' = nextId + 1
        /\ messages' = messages1
        /\ disk' = saveMessages(messages1, disk, w)
        /\ outbox' =
              BroadcastEmit(status, c,
                            [ev |-> "user-joined", name |-> username])
              \o BroadcastEmit(status, c,
                               [ev |-> "system-message", event |-> joinMessage])
              \o IoEmit(status, [ev |-> "users-list", names |-> Values(users1)])
              \o SocketEmit(c, [ev |-> "message-history",
                                events |-> Slice(messages1, 0 - HistoryLimit)])
        /\ response' = NoResponse
        /\ last' = [Ran("join", c) EXCEPT !.name = username, !.write = w]
        /\ joinPre' = [valid |-> TRUE, conn |-> c, users |-> users]
        /\ joined' = joined \cup {c}
        /\ Written(messages1, nextId + 1, w)
        /\ Clients(status, outbox')
        /\ UNCHANGED <<status, running>>

\* socket.on('get-users')
GetUsers(c) ==
    /\ running
    /\ status[c] = "open"
    /\ outbox' = SocketEmit(c, [ev |-> "users-list", names |-> Values(users)])
    /\ response' = NoResponse
    /\ last' = Ran("get-users", c)
    /\ joinPre' = NoJoin
    /\ Clients(status, outbox')
    /\ UNCHANGED <<status, users, store, running, joined>>

\* socket.on('chat-message', message), the write ending as w
Chat(c, message, w) ==
    LET username == Get(users, c)
        messageObj ==
            [id |-> nextId + 1, type |-> "chat", username |-> username,
             message |-> message.text]
        messages1 == Push(messages, messageObj)
    IN  /\ running
        /\ status[c] = "open"
        /\ response' = NoResponse
        /\ joinPre' = NoJoin
        /\ UNCHANGED <<status, users, joined>>
        /\ IF ~Truthy(username)
           THEN \* !username: return
                /\ outbox' = << >>
                /\ last' = [Ran("chat", c) EXCEPT !.payload = message]
                /\ UNCHANGED <<store, running>>
           ELSE IF ~message.isString
           THEN \* message.trim is not a function: the TypeError is caught
                \* nowhere and ends the process
                /\ outbox' = << >>
                /\ running' = FALSE
                /\ last' = [Ran("chat", c) EXCEPT !.payload = message,
                                                   !.threw = TRUE]
                /\ UNCHANGED store
           ELSE IF Trim(message.text) = << >>
           THEN \* !message.trim(): return
                /\ outbox' = << >>
                /\ last' = [Ran("chat", c) EXCEPT !.payload = message]
                /\ UNCHANGED <<store, running>>
           ELSE /\ nextId' = nextId + 1
                /\ messages' = messages1
                /\ disk' = saveMessages(messages1, disk, w)
                /\ outbox' = IoEmit(status, [ev |-> "chat-message",
                                             event |-> messageObj])
                /\ last' = [Ran("chat", c) EXCEPT !.payload = message,
                                                   !.write = w]
                /\ Written(messages1, nextId + 1, w)
                /\ UNCHANGED running
        /\ Clients(status, outbox')

\* a typing handler that logs the indicator as an event of messages
TypingLogged(c) ==
    LET username == Get(users, c)
        typingMessage == [id |-> nextId + 1, type |-> "typing",
                          username |-> username]
        messages1 == Push(messages, typingMessage)
    IN  /\ running
        /\ status[c] = "open"
        /\ nextId' = nextId + 1
        /\ messages' = messages1
        /\ disk' = saveMessages(messages1, disk, "ok")
        /\ outbox' = IF Truthy(username)
                     THEN BroadcastEmit(status, c,
                                        [ev |-> "typing", name |-> username])
                     ELSE << >>
        /\ response' = NoResponse
        /\ last' = Ran("typing", c)
        /\ joinPre' = NoJoin
        /\ Written(messages1, nextId + 1, "ok")
        /\ Clients(status, outbox')
        /\ UNCHANGED <<status, users, running, joined>>

\* socket.on('typing')
Typing(c) ==
    LET username == Get(users, c)
    IN  /\ running
        /\ status[c] = "open"
        /\ outbox' = IF Truthy(username)
                     THEN BroadcastEmit(status, c,
                                        [ev |-> "typing", name |-> username])
                     ELSE << >>
        /\ response' = NoResponse
        /\ last' = Ran("typing", c)
        /\ joinPre' = NoJoin
        /\ Clients(status, outbox')
        /\ UNCHANGED <<status, users, store, running, joined>>

\* socket.on('stop-typing')
StopTyping(c) ==
    LET username == Get(users, c)
    IN  /\ running
        /\ status[c] = "open"
        /\ outbox' = IF Truthy(username)
                     THEN BroadcastEmit(status, c,
                                        [ev |-> "stop typing",
                                         name |-> username])
                     ELSE << >>
        /\ response' = NoResponse
        /\ last' = Ran("stop-typing", c)
        /\ joinPre' = NoJoin
        /\ Clients(status, outbox')
        /\ UNCHANGED <<status, users, store, running, joined>>

\* socket.on('disconnect'): the transport has already taken socket c out of
\* the namespace when the handler runs; the write ends as w
Disconnect(c, w) ==
    LET username == Get(users, c)
        status1 == [status EXCEPT ![c] = "closed"]
        leaveMessage ==
            [id |-> nextId + 1, type |-> "system",
             message |-> <<username, " left the chat">>]
        messages1 == Push(messages, leaveMessage)
        users1 == Delete(users, c)
    IN  /\ running
        /\ status[c] = "open"
        /\ status' = status1
        /\ response' = NoResponse
        /\ joinPre' = IF joinPre.valid /\ joinPre.conn = c /\ last.op = "join"
                      THEN joinPre ELSE NoJoin
        /\ UNCHANGED <<running, joined>>
        /\ IF Truthy(username)
           THEN /\ nextId' = nextId + 1
                /\ last' = [Ran("disconnect", c) EXCEPT !.write = w]
                /\ Written(messages1, nextId + 1, w)
                /\ messages' = messages1
                /\ disk' = saveMessages(messages1, disk, w)
                /\ users' = users1
                /\ outbox' =
                      BroadcastEmit(status1, c,
                                    [ev |-> "user-left", name |-> username])
                      \o BroadcastEmit(status1, c,
                                       [ev |-> "system-message",
                                        event |-> leaveMessage])
                      \o IoEmit(status1, [ev |-> "users-list",
                                          names |-> Values(users1)])
           ELSE /\ outbox' = << >>
                /\ last' = Ran("disconnect", c)
                /\ UNCHANGED <<users, store>>
        /\ Clients(status1, outbox')

\* app.get('/api/messages') with req.query.limit = q
History(q) ==
    /\ running
    /\ response' = [code |-> 200, body |-> Slice(messages, 0 - Limit(q))]
    /\ outbox' = << >>
    /\ last' = [Ran("history", 0) EXCEPT !.limit = q]
    /\ joinPre' = NoJoin
    /\ UNCHANGED <<status, users, store, running, joined, lastSeen, view>>

\* an upload route without the test of req.file
UploadUnchecked(f, u, w) ==
    LET filename == <<nextId + 1, f.ext>>
        fileInfo ==
            [id |-> nextId + 2, filename |-> filename,
             originalname |-> f.originalname,
             path |-> <<"/uploads/">> \o filename,
             size |-> f.size, mimetype |-> f.mimetype]
        fileMessage ==
            [id |-> nextId + 3, type |-> "file", username |-> u,
             fileInfo |-> fileInfo]
        messages1 == Push(messages, fileMessage)
    IN  /\ running
        /\ joinPre' = NoJoin
        /\ UNCHANGED <<status, users, running, joined>>
        /\ nextId' = nextId + 3
        /\ last' = [Ran("upload", 0) EXCEPT !.name = u,
                                            !.file = f.present,
                                            !.write = w]
        /\ Written(messages1, nextId + 3, w)
        /\ messages' = messages1
        /\ disk' = saveMessages(messages1, disk, w)
        /\ outbox' = IoEmit(status, [ev |-> "new-file",
                                     event |-> fileMessage])
        /\ response' = [code |-> 200, body |-> <<fileInfo>>]
        /\ Clients(status, outbox')

\* app.post('/upload') with req.file = f and req.body.username = u; multer
\* names the stored file with a uuid before the route runs
Upload(f, u, w) ==
    LET filename == <<nextId + 1, f.ext>>
        fileInfo ==
            [id |-> nextId + 2, filename |-> filename,
             originalname |-> f.originalname,
             path |-> <<"/uploads/">> \o filename,
             size |-> f.size, mimetype |-> f.mimetype]
        fileMessage ==
            [id |-> nextId + 3, type |-> "file", username |-> u,
             fileInfo |-> fileInfo]
        messages1 == Push(messages, fileMessage)
    IN  /\ running
        /\ joinPre' = NoJoin
        /\ UNCHANGED <<status, users, running, joined>>
        /\ IF f.present
           THEN /\ nextId' = nextId + 3
                /\ last' = [Ran("upload", 0) EXCEPT !.name = u,
                                                    !.file = TRUE,
                                                    !.write = w]
                /\ Written(messages1, nextId + 3, w)
                /\ messages' = messages1
                /\ disk' = saveMessages(messages1, disk, w)
                /\ outbox' = IoEmit(status, [ev |-> "new-file",
                                             event |-> fileMessage])
                /\ response' = [code |-> 200, body |-> <<fileInfo>>]
           ELSE /\ outbox' = << >>
                /\ response' = [code |-> 400, body |-> << >>]
                /\ last' = [Ran("upload", 0) EXCEPT !.name = u]
                /\ UNCHANGED store
        /\ Clients(status, outbox')

\* the process is stopped (or has ended) and started again: every socket
\* is gone, users is empty, messages is read from the file
Restart ==
    /\ status' = [c \in Conns |-> IF status[c] = "open" THEN "closed"
                                                        ELSE status[c]]
    /\ users' = << >>
    /\ messages' = LoadMessages(disk)
    /\ running' = TRUE
    /\ outbox' = << >>
    /\ response' = NoResponse
    /\ last' = Ran("restart", 0)
    /\ joinPre' = NoJoin
    /\ joined' = {}
    /\ unsaved' = {}
    /\ lastSeen' = [c \in Conns |-> 0]
    /\ view' = [c \in Conns |-> NoView]
    /\ UNCHANGED <<disk, nextId, lastGood>>

(* --------------------------- specifications ---------------------------- *)

\* Session traffic with every name and every chat payload, over a disk that
\* takes every write.
Next ==
    \/ \E c \in Conns : Connect(c)
    \/ \E c \in Conns, n \in Names :
          Join(c, n, "ok") /\ nextId' <= MaxIds
    \/ \E c \in Conns : GetUsers(c)
    \/ \E c \in Conns, m \in ChatPayloads :
          Chat(c, m, "ok") /\ nextId' <= MaxIds
    \/ \E c \in Conns : Typing(c)
    \/ \E c \in Conns : StopTyping(c)
    \/ \E c \in Conns : Disconnect(c, "ok") /\ nextId' <= MaxIds

Spec == Init /\ [][Next]_vars

\* A long log: socket 1 joins and chats, socket 2 joins once at any moment,
\* and the history route is queried with every limit.
LongText == [isString |-> TRUE, text |-> <<"h">>]

LongConns == {1, 2}

NextLong ==
    \/ \E c \in LongConns : Connect(c)
    \/ \E c \in LongConns :
          ~HasKey(users, c) /\ Join(c, "a", "ok") /\ nextId' <= MaxLongIds
    \/ Chat(1, LongText, "ok") /\ HasKey(users, 1) /\ nextId' <= MaxLongIds
    \/ \E q \in QueryLimits : History(q)

SpecLong == Init /\ [][NextLong]_vars

\* One lifetime of the process: every socket handler and both routes, with
\* one name and one text, over a disk that takes every write.
StoreText == [isString |-> TRUE, text |-> <<"h">>]

NextLifetime ==
    \/ \E c \in Conns : Connect(c)
    \/ \E c \in Conns :
          ~HasKey(users, c) /\ Join(c, "a", "ok") /\ nextId' <= MaxStoreIds
    \/ \E c \in Conns :
          HasKey(users, c) /\ Chat(c, StoreText, "ok")
              /\ nextId' <= MaxStoreIds
    \/ \E c \in Conns : GetUsers(c)
    \/ \E c \in Conns : Typing(c)
    \/ \E c \in Conns : StopTyping(c)
    \/ \E c \in Conns : Disconnect(c, "ok") /\ nextId' <= MaxStoreIds
    \/ \E f \in Files, u \in BodyUsernames :
          Upload(f, u, "ok") /\ nextId' <= MaxStoreIds
    \/ History(<< >>)

SpecLifetime == Init /\ [][NextLifetime]_vars

\* The store over a disk whose writes may fail, and across restarts: every
\* handler that appends, with every outcome of its write.
NextStore ==
    \/ \E c \in Conns : Connect(c)
    \/ \E c \in Conns, w \in WriteOutcomes :
          ~HasKey(users, c) /\ Join(c, "a", w) /\ nextId' <= MaxStoreIds
    \/ \E c \in Conns, w \in WriteOutcomes :
          HasKey(users, c) /\ Chat(c, StoreText, w) /\ nextId' <= MaxStoreIds
    \/ \E c \in Conns, w \in WriteOutcomes :
          Disconnect(c, w) /\ nextId' <= MaxStoreIds
    \/ \E f \in Files, w \in WriteOutcomes :
          Upload(f, Undefined, w) /\ nextId' <= MaxStoreIds
    \/ History(<< >>)
    \/ Restart

SpecStore == Init /\ [][NextStore]_vars

(* ------------------------ vocabulary of the claims --------------------- *)

\* number of deliveries of event ev to socket c made by the last handler
Count(c, ev) ==
    Cardinality({i \in DOMAIN outbox : outbox[i].ev = ev /\ outbox[i].to = c})

\* the same, of the handler that is finishing
CountNext(c, ev) ==
    Cardinality({i \in DOMAIN outbox' :
                    outbox'[i].ev = ev /\ outbox'[i].to = c})

\* the last n elements of a sequence, n <= Len(seq)
LastN(seq, n) == SubSeq(seq, Len(seq) - n + 1, Len(seq))

\* a text with nothing but white space in it
IsBlank(t) == \A i \in DOMAIN t : t[i] \in WhiteSpace

\* sockets that have joined and are still open
Present == {c \in Conns : status[c] = "open" /\ c \in joined}

\* the message-history the last handler sent to socket c
Replay(c) ==
    outbox[CHOOSE i \in DOMAIN outbox :
              outbox[i].ev = "message-history" /\ outbox[i].to = c].events

(* -------------------------------- C1 ----------------------------------- *)

\* C1: at every moment the users object holds exactly one entry for each
\* socket that has joined and is still open and none for any other socket,
\* whatever name was declared, and every users-list sent carries one name
\* for each of those sockets.
C1_RegistryIsThePresentSockets ==
    /\ \A c \in Conns :
          Cardinality({i \in DOMAIN users : users[i].id = c})
              = IF c \in Present THEN 1 ELSE 0
    /\ \A i \in DOMAIN outbox :
          outbox[i].ev = "users-list"
              => Len(outbox[i].names) = Cardinality(Present)

(* -------------------------------- C2 ----------------------------------- *)

\* C2: a chat handler that runs with a non-blank string for a socket that
\* has an entry in users appends exactly one chat event with that entry's
\* name and the text to the end of messages, and delivers that event as
\* chat-message exactly once to every open socket, the sender included.
C2_ChatIsAppendedAndBroadcast ==
    [][(/\ last'.op = "chat"
        /\ last'.payload.isString
        /\ ~IsBlank(last'.payload.text)
        /\ HasKey(users, last'.conn))
       => /\ Len(messages') = Len(messages) + 1
          /\ SubSeq(messages', 1, Len(messages)) = messages
          /\ LET e == messages'[Len(messages')]
             IN  /\ e.type = "chat"
                 /\ e.username = Get(users, last'.conn)
                 /\ e.message = last'.payload.text
                 /\ \A c \in Open(status') :
                       /\ CountNext(c, "chat-message") = 1
                       /\ \A i \in DOMAIN outbox' :
                             outbox'[i].to = c => outbox'[i].event = e
          /\ \A i \in DOMAIN outbox' :
                /\ outbox'[i].ev = "chat-message"
                /\ outbox'[i].to \in Open(status')]_vars

(* -------------------------------- C3 ----------------------------------- *)

\* C3: the message-history a join handler sends goes to the joining socket
\* and is the last min(50, length) events of messages as it is when the
\* handler sends it, in order.
C3_ReplayIsLastFifty ==
    last.op = "join"
        => /\ Count(last.conn, "message-history") = 1
           /\ Replay(last.conn)
                 = LastN(messages, Min(HistoryLimit, Len(messages)))

\* a join that found more events than one replay holds
C3_Witness == last.op = "join" /\ Len(messages) > HistoryLimit + 5

(* -------------------------------- C4 ----------------------------------- *)

\* a join handler has just run and the 60 events before its own join
\* notice are chat events
SixtyChatsThenJoin ==
    /\ last.op = "join"
    /\ Len(messages) >= 61
    /\ \A k \in 1..60 : messages[Len(messages) - k].type = "chat"

\* C4 as stated: after 60 chats, the replay of a socket that joins is the
\* last 50 of those chats, in order.
C4_ReplayIsLastFiftyChats ==
    SixtyChatsThenJoin
        => Replay(last.conn)
              = SubSeq(messages, Len(messages) - 50, Len(messages) - 1)

\* C4 amended: after 60 chats, the replay of a socket that joins is the
\* last 49 of those chats, in order, followed by the socket's own join
\* notice.
C4_ReplayIsLastFortyNineChatsAndJoin ==
    SixtyChatsThenJoin
        => /\ Replay(last.conn)
                 = SubSeq(messages, Len(messages) - 49, Len(messages) - 1)
                      \o <<messages[Len(messages)]>>
           /\ messages[Len(messages)].type = "system"
           /\ messages[Len(messages)].message[1] = last.name

C4_Witness == SixtyChatsThenJoin /\ Len(Replay(last.conn)) = 50

(* -------------------------------- C5 ----------------------------------- *)

\* C5: a history query whose limit reads as an integer n >= 0 answers with
\* the last min(n, total) events of messages, in order, and leaves messages
\* as it was.
C5_HistoryIsLastN ==
    [][(/\ last'.op = "history"
        /\ ~ParseInt(last'.limit).nan
        /\ ParseInt(last'.limit).val >= 0)
       => /\ response'.body
                = LastN(messages,
                        Min(ParseInt(last'.limit).val, Len(messages)))
          /\ messages' = messages]_vars

(* -------------------------------- C6 ----------------------------------- *)

\* C6: when the join handler of socket b has run, every other open socket
\* has been sent the join notice as system-message and user-joined with
\* the name, once each, and no message-history; b has been sent
\* message-history once and neither system-message nor user-joined; every
\* open socket, b included, has been sent users-list once.
C6_JoinFanOut ==
    last.op = "join"
        => LET b == last.conn
           IN  /\ \A c \in Open(status) \ {b} :
                     /\ Count(c, "system-message") = 1
                     /\ Count(c, "user-joined") = 1
                     /\ Count(c, "message-history") = 0
               /\ Count(b, "message-history") = 1
               /\ Count(b, "system-message") = 0
               /\ Count(b, "user-joined") = 0
               /\ \A c \in Open(status) : Count(c, "users-list") = 1
               /\ \A i \in DOMAIN outbox :
                     /\ outbox[i].to \in Open(status)
                     /\ outbox[i].ev = "user-joined"
                           => outbox[i].name = last.name
                     /\ outbox[i].ev = "system-message"
                           => outbox[i].event = messages[Len(messages)]
                     /\ outbox[i].ev = "users-list"
                           => outbox[i].names = Values(users)

\* a join while another socket that has joined is open
C6_Witness ==
    /\ last.op = "join"
    /\ \E c \in Present : c # last.conn

(* -------------------------------- C7 ----------------------------------- *)

ToOthersEvents ==
    {"user-joined", "user-left", "system-message", "typing", "stop typing"}

\* C7: whenever a handler of socket o sends a join notice, a leave notice,
\* typing or stop typing, no delivery of it goes to o and exactly one goes
\* to every other socket that is open.
C7_ToOthersSkipsOrigin ==
    \A i \in DOMAIN outbox :
        outbox[i].ev \in ToOthersEvents
            => /\ outbox[i].to # last.conn
               /\ Count(last.conn, outbox[i].ev) = 0
               /\ \A c \in Conns \ {last.conn} :
                     Count(c, outbox[i].ev)
                         = IF status[c] = "open" THEN 1 ELSE 0

\* a typing notice has reached the other open socket
C7_Witness ==
    /\ last.op = "typing"
    /\ \E i \in DOMAIN outbox : outbox[i].ev = "typing"
    /\ status[last.conn] = "open"

(* -------------------------------- C8 ----------------------------------- *)

\* C8: a chat handler that runs with an empty or white-space-only string,
\* or for a socket with no entry in users, appends nothing to messages,
\* writes nothing, delivers nothing, throws nothing and leaves users as it
\* was.
C8_DroppedChatChangesNothing ==
    [][(/\ last'.op = "chat"
        /\ \/ last'.payload.isString /\ IsBlank(last'.payload.text)
           \/ ~HasKey(users, last'.conn))
       => /\ messages' = messages
          /\ disk' = disk
          /\ users' = users
          /\ Len(outbox') = 0
          /\ ~last'.threw
          /\ running']_vars

\* a white-space-only chat from a socket that has joined under a name
C8_Witness ==
    /\ last.op = "chat"
    /\ last.payload.isString
    /\ last.payload.text # << >>
    /\ IsBlank(last.payload.text)
    /\ Truthy(Get(users, last.conn))

(* -------------------------------- C9 ----------------------------------- *)

\* C9: the name of an entry of users never changes, and the entry stays,
\* for as long as its socket is open.
C9_NameIsSetOnce ==
    [][\A c \in Conns :
          (HasKey(users, c) /\ status'[c] = "open")
              => /\ HasKey(users', c)
                 /\ Get(users', c) = Get(users, c)]_vars

(* -------------------------------- C10 ---------------------------------- *)

\* C10: when the disconnect handler of a socket runs right after the join
\* handler of that socket, users is again what it was before the join.
C10_JoinThenLeaveRestoresUsers ==
    (last.op = "disconnect" /\ joinPre.valid /\ joinPre.conn = last.conn)
        => users = joinPre.users

(* -------------------------------- C11 ---------------------------------- *)

\* C11: no handler stops the process: after every handler, whatever its
\* payload and however its write ended, the process is still serving and
\* the handler has thrown nothing.
C11_NoHandlerStopsTheProcess ==
    /\ running
    /\ ~last.threw

(* -------------------------------- C12 ---------------------------------- *)

\* the ids of the events of a sequence
Ids(seq) == {seq[i].id : i \in DOMAIN seq}

\* the handler that ran appended an event and its write did not go through
WriteFailed == last.write \in {"failed", "torn"}

\* the sockets the event appended by the last handler is broadcast to:
\* every open one for a chat or an upload, every other open one for a join
\* or a leave
Audience ==
    {c \in Conns : status[c] = "open"
                     /\ (last.op \in {"chat", "upload"} \/ c # last.conn)}

\* C12: when the write of an append fails, the process keeps serving, the
\* event is the newest of messages and is delivered to its whole audience,
\* the file does not hold it (it gets there only with the successful write
\* of a later append, never by a retry), and until the process ends every
\* event whose write failed stays in messages and is part of every replay
\* and of every history response.
C12_FailedWriteKeepsTheEvent ==
    /\ WriteFailed =>
          LET e == messages[Len(messages)]
          IN  /\ running
              /\ messages # << >>
              /\ e.id = nextId
              /\ e.id \in unsaved
              /\ e.id \notin Ids(LoadMessages(disk))
              /\ \A c \in Audience :
                    \E i \in DOMAIN outbox :
                       /\ outbox[i].to = c
                       /\ outbox[i].ev \in PersistedEvents
                       /\ outbox[i].event = e
    /\ unsaved \subseteq Ids(messages)
    /\ \A n \in unsaved :
          n \in Ids(LoadMessages(disk))
              => \E m \in Ids(LoadMessages(disk)) \ unsaved : m > n
    /\ last.op = "history" =>
          /\ response.code = 200
          /\ unsaved \subseteq Ids(response.body)
    /\ last.op = "join" =>
          \E i \in DOMAIN outbox :
             /\ outbox[i].ev = "message-history"
             /\ outbox[i].to = last.conn
             /\ unsaved \subseteq Ids(outbox[i].events)

\* a chat whose write failed, with somebody to receive it, after an earlier
\* append whose write had failed too
C12_Witness ==
    /\ last.op = "chat"
    /\ WriteFailed
    /\ Audience # {}
    /\ Cardinality(unsaved) >= 2

(* -------------------------------- C13 ---------------------------------- *)

\* seq is the beginning of whole
IsPrefix(seq, whole) ==
    /\ Len(seq) <= Len(whole)
    /\ \A i \in DOMAIN seq : seq[i] = whole[i]

\* C13: after an append whose write went through the file holds the whole
\* of messages as JSON, the events whose own write had failed included; and
\* in every state what the file yields when read is the beginning of
\* messages as JSON.
C13_FileIsMessagesAfterWrite ==
    /\ last.write = "ok" =>
          /\ ~disk.corrupt
          /\ disk.log = Stringify(messages)
          /\ unsaved \subseteq Ids(disk.log)
    /\ IsPrefix(LoadMessages(disk), Stringify(messages))

\* a write that goes through after an append whose write had failed
C13_Witness ==
    /\ last.write = "ok"
    /\ unsaved # {}
    /\ Len(messages) >= 2

(* -------------------------------- C14 ---------------------------------- *)

\* C14: when the process has started again, messages is the log of the
\* last write that went through before the stop, and users is empty.
C14_RestartLoadsLastWrittenLog ==
    last.op = "restart" =>
        /\ messages = lastGood
        /\ users = << >>

(* -------------------------------- C15 ---------------------------------- *)

\* C15: while the process lives, every handler and every route leaves
\* messages as it was or with one event added at its end: what was in
\* messages before stays, in its place and unchanged.
C15_MessagesIsAppendOnly ==
    [][last'.op # "restart" =>
          /\ IsPrefix(messages, messages')
          /\ Len(messages') <= Len(messages) + 1
          /\ last'.op \in {"connect", "typing", "stop-typing", "get-users",
                            "history"} => messages' = messages]_vars

\* an upload that has appended to a log which held events already
C15_Witness ==
    /\ last.op = "upload"
    /\ last.file
    /\ Len(messages) >= 2

(* -------------------------------- C16 ---------------------------------- *)

\* C16: the typing, stop-typing and get-users handlers leave messages, the
\* file and users as they were, whether the socket has joined or not and
\* whatever name it joined under.
C16_IndicatorsChangeNothing ==
    [][last'.op \in {"typing", "stop-typing", "get-users"} =>
          /\ messages' = messages
          /\ disk' = disk
          /\ users' = users
          /\ nextId' = nextId]_vars

\* a typing indicator of a joined socket that reached another socket, with
\* events in messages
C16_Witness ==
    /\ last.op = "typing"
    /\ HasKey(users, last.conn)
    /\ outbox # << >>
    /\ messages # << >>

(* -------------------------------- C17 ---------------------------------- *)

\* the deliveries of the handler that is finishing which bring an element
\* of messages to socket c
PersistedTo(c) ==
    {i \in DOMAIN outbox' :
        outbox'[i].to = c /\ outbox'[i].ev \in PersistedEvents}

\* C17: a handler brings at most one element of messages to a socket by
\* broadcast, and that element stands in messages after the one the socket
\* received last before: for every socket, the order of arrival of
\* chat-message, new-file and system-message is the order of messages.
C17_ArrivalIsStoreOrder ==
    [][\A c \in Conns :
          /\ Cardinality(PersistedTo(c)) <= 1
          /\ \A i \in PersistedTo(c) :
                \E k \in DOMAIN messages' :
                   /\ messages'[k] = outbox'[i].event
                   /\ lastSeen[c] # 0 =>
                         \E j \in 1 .. (k - 1) :
                            messages'[j].id = lastSeen[c]]_vars

\* the only socket that ever connected has sent two chats one after the
\* other and is receiving the second
C17_Witness ==
    /\ status[1] = "open"
    /\ \A c \in Conns \ {1} : status[c] = "new"
    /\ last.op = "chat"
    /\ Len(messages) >= 3
    /\ messages[Len(messages) - 1].type = "chat"
    /\ \E i \in DOMAIN outbox :
          /\ outbox[i].to = 1
          /\ outbox[i].ev = "chat-message"
          /\ outbox[i].event = messages[Len(messages)]

(* -------------------------------- C18 ---------------------------------- *)

\* C18: an upload request without a file is answered with an error status
\* and does nothing else: messages, the file, the uuid counter and users
\* are as before, and no socket is sent anything.
C18_UploadWithoutFileIsRefused ==
    [][(last'.op = "upload" /\ ~last'.file) =>
          /\ response'.code = 400
          /\ response'.body = << >>
          /\ messages' = messages
          /\ disk' = disk
          /\ nextId' = nextId
          /\ users' = users
          /\ outbox' = << >>]_vars

\* an upload without a file, refused while a joined socket is open and
\* messages holds events
C18_Witness ==
    /\ last.op = "upload"
    /\ ~last.file
    /\ response.code = 400
    /\ messages # << >>
    /\ \E c \in Conns : status[c] = "open" /\ HasKey(users, c)

(* -------------------------------- C19 ---------------------------------- *)

NamesOf(u) == [i \in DOMAIN u |-> u[i].name]

\* C20: between handlers, every open socket that has joined has received a
\* users-list, and the last one it received lists the names of users as
\* users is now.
C20_UsersListIsCurrent ==
    \A c \in Conns :
       (status[c] = "open" /\ c \in joined) =>
           /\ view[c].got
           /\ view[c].names = NamesOf(users)

\* a joined socket stays open while another socket, joined under a name,
\* leaves and users loses its entry
C20_Witness ==
    /\ last.op = "disconnect"
    /\ last.write = "ok"
    /\ ~HasKey(users, last.conn)
    /\ \E c \in Conns :
          /\ c # last.conn
          /\ status[c] = "open"
          /\ c \in joined
          /\ view[c].got

====
